---- MODULE Spec2Model ----
\* tw2wa.js: the poll scheduler (pollOnce), the tier resolver (fetchFeed and the
\* three tier fetchers), the transport layer (fetchRaw, fetchTextSmart), the dedup
\* registry (seen, saveSeen) and the process lifecycle (ready, SIGINT, exit).
EXTENDS Integers, Sequences, FiniteSets, TLC

\* ---------------------------------------------------------------- bounds
\* Post ids the sources can serve are 1..MaxPost when one handle is configured,
\* and 1..MaxPost-1 when two are.
MaxPost == 3
\* Longest list of entries a feed body (or a DOM / widget node list) can hold.
MaxFeedLen == 3
\* Number of times the process may be killed without running a handler.
MaxCrashes == 1

\* ------------------------------------------------------ program constants
\* cfg.maxItemsPerHandle (default 8); the configuration modelled sets it to 2.
MAX_ITEMS_PER_HANDLE == 2
\* fetchFeed calls withRetry with { retries: 1 }.
Retries == 1
\* fetchTextSmart: the direct request, the proxy over http, the proxy over https.
SmartRequests == 3
\* The priority prefix and the mirror list, cut to one handle and two mirrors.
PRIORITY_HANDLES == <<"a">>
NITTER_BASES == <<"m1", "m2">>

\* ------------------------------------------------------------- universes
PostIds == 1..MaxPost
\* An item is modelled by its link: NoLink is an item without a link, n > 0 is
\* the link ".../status/n".
NoLink == 0
Links == 0..MaxPost
Null == 0
\* Entries of cfg.handles as written in config.json (untrimmed, maybe empty).
CfgEntries == {"a", "b", " b", ""}
Handles == {"a", "b"}
Keys == Handles \X PostIds
Loops == {1, 2}
Texts == {"", "t"}

SeqsUpTo(S, n) == UNION {[1..k -> S] : k \in 0..n}
SeqsOfLen(S, n) == [1..n -> S]
FeedsOver(maxId) == SeqsUpTo(0..maxId, MaxFeedLen)
FeedsWide == FeedsOver(MaxPost)
FeedsNarrow == FeedsOver(MaxPost - 1)
CfgLists == SeqsUpTo(CfgEntries, 2)

\* A response body, as far as the classifier and the tier dispatch read it:
\* the refusal signature its text matches and the format it is written in.
Sigs == {"none", "blocked", "ratelimit", "empty"}
Forms == {"xml", "html", "md", "json"}
Bodies == [sig : Sigs, form : Forms]
NoBody == [sig |-> "-", form |-> "-"]
\* A DOM node of a timeline page or of the widget markup: the post id its
\* permalink (or data-tweet-id) carries, Null when it has none, and its text.
NodeListsOver(maxId) == SeqsUpTo([id : 0..maxId, text : Texts], MaxFeedLen)

\* ------------------------------------------------------- pure functions
Min(a, b) == IF a < b THEN a ELSE b

RECURSIVE uniqFrom(_, _)
uniqFrom(arr, acc) ==
  IF arr = <<>> THEN acc
  ELSE uniqFrom(Tail(arr),
                IF \E i \in 1..Len(acc) : acc[i] = Head(arr) THEN acc
                ELSE Append(acc, Head(arr)))

\* [...new Set(arr)]: first occurrences, in order.
uniq(arr) == uniqFrom(arr, <<>>)

\* String.prototype.trim on the entries modelled.
trim(s) == IF s = " b" THEN "b" ELSE s

RECURSIVE trimFilter(_)
trimFilter(arr) ==
  IF arr = <<>> THEN <<>>
  ELSE LET t == trim(Head(arr)) IN
       IF t = "" THEN trimFilter(Tail(arr)) ELSE <<t>> \o trimFilter(Tail(arr))

allHandles(cfgHandles) == uniq(trimFilter(cfgHandles))

prioritized(cfgHandles) == uniq(PRIORITY_HANDLES \o allHandles(cfgHandles))

\* Array.prototype.slice(-n): the last n elements.
sliceLast(s, n) == IF Len(s) <= n THEN s ELSE SubSeq(s, Len(s) - n + 1, Len(s))

\* Array.prototype.slice(0, n): the first n elements.
sliceFirst(s, n) == IF Len(s) <= n THEN s ELSE SubSeq(s, 1, n)

reverse(s) == IF s = <<>> THEN <<>> ELSE [i \in 1..Len(s) |-> s[Len(s) + 1 - i]]

\* The subset in the order the feed gives it (the reverse() call left out).
subsetUnreversed(items) == sliceLast(items, MAX_ITEMS_PER_HANDLE)

\* pollOnce: items.slice(-MAX_ITEMS_PER_HANDLE), then .reverse().
subsetOf(items) == reverse(sliceLast(items, MAX_ITEMS_PER_HANDLE))

getTweetIdFromLink(link) == IF link = NoLink THEN Null ELSE link

Key(handle, id) == <<handle, id>>

looksLikeWhitelistBlock(b) == b.sig = "blocked"
looksLikeRateLimit(b) == b.sig = "ratelimit"
looksLikeEmptyTimeline(b) == b.sig = "empty"
isXMLish(b) == b.form = "xml"
isMarkdown(b) == b.form = "md"

\* fetchNitterRSS: the bodies it refuses before parsing.
rssRefuses(b) ==
  looksLikeWhitelistBlock(b) \/ looksLikeRateLimit(b) \/ looksLikeEmptyTimeline(b)
    \/ ~isXMLish(b)

\* The HTML tier's check without the access-restriction test.
htmlRefusesRateLimit(b) == looksLikeRateLimit(b)

\* fetchNitterHTML: the bodies it refuses before parsing.
htmlRefuses(b) == looksLikeWhitelistBlock(b) \/ looksLikeRateLimit(b)

RECURSIVE domItems(_, _, _)
domItems(nodes, seenIds, items) ==
  IF nodes = <<>> THEN items
  ELSE LET n == Head(nodes) IN
       IF n.id = Null \/ n.id \in seenIds THEN domItems(Tail(nodes), seenIds, items)
       ELSE IF n.text = "" THEN domItems(Tail(nodes), seenIds \cup {n.id}, items)
       ELSE domItems(Tail(nodes), seenIds \cup {n.id}, Append(items, n.id))

\* parseNitterHTML: of the first MAX_ITEMS_PER_HANDLE nodes, those with a
\* permalink, an id not met before on the page and a text.
parseNitterHTML(nodes) == domItems(sliceFirst(nodes, MAX_ITEMS_PER_HANDLE), {}, <<>>)

DomResultsOver(maxId) == {parseNitterHTML(nodes) : nodes \in NodeListsOver(maxId)}
DomResultsWide == DomResultsOver(MaxPost)
DomResultsNarrow == DomResultsOver(MaxPost - 1)

\* fetchSyndication: how many of the first MAX_ITEMS_PER_HANDLE widget nodes
\* carry an id and a text (each costs one timestamp fetch and yields one item).
syndCount(nodes) ==
  LET first == sliceFirst(nodes, MAX_ITEMS_PER_HANDLE) IN
  Cardinality({i \in 1..Len(first) : first[i].id # Null /\ first[i].text # ""})

SyndCounts == {syndCount(nodes) : nodes \in NodeListsOver(1)}

\* extractStatusLinksMD(body).slice(0, MAX_ITEMS_PER_HANDLE): how many links.
mdLinkCount(n) == Min(n, MAX_ITEMS_PER_HANDLE)

\* ------------------------------------------------------------------ state
VARIABLES
  handles,    \* cfg.handles after prioritisation
  seen,       \* the in-memory registry: the keys set to true
  disk,       \* the keys in seen.json
  delivered,  \* history: per key, the sendToWhatsApp calls that returned
  proc,       \* "running", or how the process ended
  sigint,     \* TRUE while the SIGINT handler awaits waClient.destroy()
  crashes,    \* history: the kills so far
  loop,       \* per ready event, the state of its poll loop
  fn          \* the call of a helper function followed on its own, if any

vars == <<handles, seen, disk, delivered, proc, sigint, crashes, loop, fn>>

\* No helper function is followed on its own.
NoCall == [op |-> "none"]

\* A poll loop that is not running.
OffLoop ==
  [pc |-> "off", h |-> 0, changed |-> FALSE, todo |-> <<>>, feed |-> <<>>,
   tier |-> "none", att |-> 0, mir |-> 0, call |-> "none", stage |-> 0,
   left |-> 0, acc |-> 0, og |-> FALSE,
   \* history of the current fetchFeed call
   consulted |-> <<>>, got |-> NoBody, gotAt |-> <<>>,
   \* history of the current handle's visit
   logged |-> 0, nsent |-> 0, nmarked |-> 0, saved |-> FALSE, failed |-> FALSE,
   threw |-> FALSE]

Init ==
  /\ \E c \in CfgLists : handles = prioritized(c)
  /\ seen = {}
  /\ disk = {}
  /\ delivered = [k \in Keys |-> 0]
  /\ proc = "running"
  /\ sigint = FALSE
  /\ crashes = 0
  /\ loop = [l \in Loops |-> OffLoop]
  /\ fn = NoCall

\* ------------------------------------------------- control flow of a loop
\* The body received in the previous step is history of that step only.
Forget(r) == [r EXCEPT !.got = NoBody, !.gotAt = <<>>]

\* fetchRaw is called for the first time in a transport fetch.
StartRequest(r, call) ==
  [r EXCEPT !.pc = "http", !.call = call, !.stage = 1]

\* One mirror of a tier attempt: fetchTextSmart(url, base).
BeginMirror(r, tier, att, mir) ==
  StartRequest([r EXCEPT !.tier = tier, !.att = att, !.mir = mir,
                         !.left = 0, !.acc = 0, !.og = FALSE,
                         !.consulted = Append(@, <<tier, att, mir>>)],
               "mirror")

\* One attempt of the widget tier: fetchRaw(url), no mirror and no proxy.
BeginSyndication(r, att) ==
  StartRequest([r EXCEPT !.tier = "synd", !.att = att, !.mir = 0,
                         !.left = 0, !.acc = 0, !.og = FALSE,
                         !.consulted = Append(@, <<"synd", att, 0>>)],
               "synd")

\* withRetry calls fn: the tier fetcher starts at the first mirror.
BeginAttempt(r, tier, att) ==
  IF tier = "synd" THEN BeginSyndication(r, att) ELSE BeginMirror(r, tier, att, 1)

\* pollOnce's catch: the error is logged; the save and the pause follow.
Thrown(r) ==
  [r EXCEPT !.pc = "pause", !.call = "none", !.stage = 0, !.tier = "none",
            !.att = 0, !.mir = 0, !.left = 0, !.acc = 0, !.og = FALSE,
            !.todo = <<>>, !.consulted = <<>>, !.logged = @ + 1]

\* A failure of fetchFeed that also flags the registry as changed.
FeedFailedFlagged(r) == Thrown([r EXCEPT !.failed = TRUE, !.changed = TRUE])

\* fetchFeed throws: every tier is exhausted.
FeedFailed(r) == Thrown([r EXCEPT !.failed = TRUE])

NextTier(tier) == IF tier = "rss" THEN "html" ELSE "synd"

\* withRetry with the loop's bound also deciding the retry (a <= retries).
AttemptFailedAgain(r) ==
  IF r.att <= Retries THEN BeginAttempt(r, r.tier, r.att + 1)
  ELSE IF r.tier = "synd" THEN FeedFailed(r)
  ELSE BeginAttempt(r, NextTier(r.tier), 0)

\* withRetry's catch: one more attempt after the sleep while a < retries, else
\* the error leaves withRetry and fetchFeed's catch turns to the next tier.
AttemptFailed(r) ==
  IF r.att < Retries THEN BeginAttempt(r, r.tier, r.att + 1)
  ELSE IF r.tier = "synd" THEN FeedFailed(r)
  ELSE BeginAttempt(r, NextTier(r.tier), 0)

\* A mirror's failure ending the attempt (break in place of continue).
MirrorFailedBreaks(r) == AttemptFailed(r)

\* The catch inside the mirror loop: the next mirror, or the tier attempt fails.
MirrorFailed(r) ==
  IF r.mir < Len(NITTER_BASES) THEN BeginMirror(r, r.tier, r.att, r.mir + 1)
  ELSE AttemptFailed(r)

\* Where an error thrown by the transport fetch in progress is caught.
CallFailed(r) ==
  CASE r.call \in {"mirror", "og", "ts"} -> MirrorFailed(r)
    [] r.call \in {"synd", "syndts"} -> AttemptFailed(r)
    [] OTHER -> Thrown(r)

\* fetchFeed returns a feed with these items.
Fetched(r, items) ==
  [r EXCEPT !.pc = "fetched", !.feed = items, !.call = "none", !.stage = 0,
            !.left = 0, !.acc = 0, !.og = FALSE, !.tier = "none", !.att = 0,
            !.mir = 0, !.consulted = <<>>]

\* The requests one transport fetch may issue: fetchSyndication calls fetchRaw,
\* every other caller calls fetchTextSmart.
MaxStage(call) == IF call = "synd" THEN 1 ELSE SmartRequests

\* for (const handle of cfg.handles): the visit of handle number h begins.
StartHandle(r, h) ==
  BeginAttempt([r EXCEPT !.h = h, !.changed = FALSE, !.todo = <<>>, !.feed = <<>>,
                         !.consulted = <<>>,
                         !.logged = 0, !.nsent = 0, !.nmarked = 0,
                         !.saved = FALSE, !.failed = FALSE, !.threw = FALSE],
               "rss", 0)

\* A step of loop l that never writes seen.json.
CommitUnsaved(l, r, s) ==
  /\ seen' = s
  /\ disk' = disk
  /\ loop' = [loop EXCEPT ![l] = r]

\* The step of loop l ends in record r with the registry s: saveSeen runs when
\* the visit ends (pc "pause" is entered) with changed set.
Commit(l, r, s) ==
  LET saves == r.pc = "pause" /\ loop[l].pc # "pause" /\ r.changed IN
  /\ seen' = s
  /\ disk' = IF saves THEN s ELSE disk
  /\ loop' = [loop EXCEPT ![l] = IF saves THEN [r EXCEPT !.saved = TRUE] ELSE r]

Running == proc = "running"

\* What the sources can serve in the configuration at hand.
Wide == Len(handles) = 1
PostsNow == IF Wide THEN 1..MaxPost ELSE 1..(MaxPost - 1)
Feeds == IF Wide THEN FeedsWide ELSE FeedsNarrow
DomResults == IF Wide THEN DomResultsWide ELSE DomResultsNarrow

\* --------------------------------------------------------------- actions
\* Loop l as its step finds it: what the previous step received is forgotten.
Cur(l) == Forget(loop[l])

\* The body b arrives at the mirror loop (or at fetchSyndication) at its place.
Got(r, b) == [Forget(r) EXCEPT !.got = b, !.gotAt = <<r.tier, r.att, r.mir>>]

\* The process ends: nothing of its memory is left.
Exit(how) ==
  /\ proc' = how
  /\ sigint' = FALSE
  /\ loop' = [l \in Loops |-> OffLoop]

\* client.on("ready"): the handler starts and awaits getChatIdByName.
Ready(l) ==
  /\ Running
  /\ loop[l].pc = "off"
  /\ loop' = [loop EXCEPT ![l] = [@ EXCEPT !.pc = "chat"]]
  /\ UNCHANGED <<fn, handles, seen, disk, delivered, proc, sigint, crashes>>

\* getChatIdByName returns: loop() calls pollOnce, which starts the first handle.
ChatFound(l) ==
  /\ Running
  /\ loop[l].pc = "chat"
  /\ Commit(l, StartHandle(Cur(l), 1), seen)
  /\ UNCHANGED <<fn, handles, delivered, proc, sigint, crashes>>

\* getChatIdByName throws: the handler's catch calls process.exit(1).
ChatNotFound(l) ==
  /\ Running
  /\ loop[l].pc = "chat"
  /\ Exit("exit1")
  /\ UNCHANGED <<fn, handles, seen, disk, delivered, crashes>>

\* fetchRaw throws (timeout, network error, status not ok): fetchTextSmart
\* issues its next request, or the error of the fetch reaches the caller.
HttpFail(l) ==
  /\ Running
  /\ loop[l].pc = "http"
  /\ LET r == Cur(l) IN
     Commit(l,
            IF r.stage < MaxStage(r.call)
            THEN [r EXCEPT !.stage = @ + 1]
            ELSE CallFailed(r),
            seen)
  /\ UNCHANGED <<fn, handles, delivered, proc, sigint, crashes>>

\* The body is handed to the tier's parser.
ToParser(r) == [r EXCEPT !.pc = "parse", !.call = "none", !.stage = 0]

\* fetchNitterRSS receives a body: refused, or handed to parser.parseString.
RssBody(l) ==
  /\ Running
  /\ loop[l].pc = "http" /\ loop[l].call = "mirror" /\ loop[l].tier = "rss"
  /\ \E b \in Bodies :
       LET r == Got(loop[l], b) IN
       Commit(l, IF rssRefuses(b) THEN MirrorFailed(r) ELSE ToParser(r), seen)
  /\ UNCHANGED <<fn, handles, delivered, proc, sigint, crashes>>

\* parser.parseString settles: it throws, or returns the feed's items.
ParseRss(l) ==
  /\ Running
  /\ loop[l].pc = "parse" /\ loop[l].tier = "rss"
  /\ \/ Commit(l, MirrorFailed(Cur(l)), seen)
     \/ \E items \in Feeds : Commit(l, Fetched(Cur(l), items), seen)
  /\ UNCHANGED <<fn, handles, delivered, proc, sigint, crashes>>

\* fetchNitterHTML receives a body: refused, harvested (Markdown with status
\* links: n of them) or handed to parseNitterHTML.
HtmlBody(l) ==
  /\ Running
  /\ loop[l].pc = "http" /\ loop[l].call = "mirror" /\ loop[l].tier = "html"
  /\ \E b \in Bodies, n \in 0..MaxFeedLen :
       LET r == Got(loop[l], b) IN
       Commit(l,
              IF htmlRefuses(b) THEN MirrorFailed(r)
              ELSE IF isMarkdown(b) /\ mdLinkCount(n) > 0
              THEN StartRequest([r EXCEPT !.left = mdLinkCount(n)], "og")
              ELSE ToParser(r),
              seen)
  /\ UNCHANGED <<fn, handles, delivered, proc, sigint, crashes>>

\* parseNitterHTML returns the page's items: none is an error of the mirror.
ParseDom(l) ==
  /\ Running
  /\ loop[l].pc = "parse" /\ loop[l].tier = "html"
  /\ \E items \in DomResults :
       Commit(l,
              IF items = <<>> THEN MirrorFailed(Cur(l)) ELSE Fetched(Cur(l), items),
              seen)
  /\ UNCHANGED <<fn, handles, delivered, proc, sigint, crashes>>

\* fetchStatusViaOG returns og.text; getTweetTimeFromStatus is called next.
OgBody(l) ==
  /\ Running
  /\ loop[l].pc = "http" /\ loop[l].call = "og"
  /\ \E text \in Texts :
       Commit(l, StartRequest([Cur(l) EXCEPT !.og = (text # "")], "ts"), seen)
  /\ UNCHANGED <<fn, handles, delivered, proc, sigint, crashes>>

\* getTweetTimeFromStatus returns inside the harvest: the item is pushed when
\* og.text is not empty; after the last link the items are returned, or, when
\* there are none, the body goes to parseNitterHTML.
TsBody(l) ==
  /\ Running
  /\ loop[l].pc = "http" /\ loop[l].call = "ts"
  /\ LET r == [Cur(l) EXCEPT !.acc = IF Cur(l).og THEN @ + 1 ELSE @,
                             !.left = @ - 1, !.og = FALSE]
     IN
     IF r.left > 0 THEN Commit(l, StartRequest(r, "og"), seen)
     ELSE IF r.acc > 0
     THEN \E items \in SeqsOfLen(PostsNow, r.acc) : Commit(l, Fetched(r, items), seen)
     ELSE Commit(l, ToParser(r), seen)
  /\ UNCHANGED <<fn, handles, delivered, proc, sigint, crashes>>

\* fetchSyndication receives the widget body: not JSON with a body, or no node
\* with an id and a text, is an error of the attempt; else one timestamp fetch
\* per node.
SyndBody(l) ==
  /\ Running
  /\ loop[l].pc = "http" /\ loop[l].call = "synd"
  /\ \E b \in Bodies, n \in SyndCounts :
       LET r == Got(loop[l], b) IN
       Commit(l,
              IF b.form # "json" \/ n = 0 THEN AttemptFailed(r)
              ELSE StartRequest([r EXCEPT !.left = n], "syndts"),
              seen)
  /\ UNCHANGED <<fn, handles, delivered, proc, sigint, crashes>>

\* getTweetTimeFromStatus returns inside fetchSyndication: the item is pushed.
SyndTsBody(l) ==
  /\ Running
  /\ loop[l].pc = "http" /\ loop[l].call = "syndts"
  /\ LET r == [Cur(l) EXCEPT !.acc = @ + 1, !.left = @ - 1] IN
     IF r.left > 0 THEN Commit(l, StartRequest(r, "syndts"), seen)
     ELSE \E items \in SeqsOfLen(PostsNow, r.acc) : Commit(l, Fetched(r, items), seen)
  /\ UNCHANGED <<fn, handles, delivered, proc, sigint, crashes>>

\* fetchFeed's result reaches pollOnce: the subset to process is cut.
Slice(l) ==
  /\ Running
  /\ loop[l].pc = "fetched"
  /\ Commit(l,
            [Cur(l) EXCEPT !.pc = "items", !.todo = subsetOf(loop[l].feed),
                           !.feed = <<>>],
            seen)
  /\ UNCHANGED <<fn, handles, delivered, proc, sigint, crashes>>

\* The key of the item pollOnce is at.
CurKey(r) == Key(handles[r.h], getTweetIdFromLink(Head(r.todo)))

\* A turn of the loop that marks a post as soon as it is found new, before its
\* delivery is attempted.
ProcessItemMarksFirst(l) ==
  /\ Running
  /\ loop[l].pc = "items"
  /\ LET r == Cur(l) IN
     IF r.todo = <<>> THEN Commit(l, [r EXCEPT !.pc = "pause"], seen)
     ELSE IF getTweetIdFromLink(Head(r.todo)) = Null \/ CurKey(r) \in seen
     THEN Commit(l, [r EXCEPT !.todo = Tail(@)], seen)
     ELSE \E text \in Texts, hasTime \in BOOLEAN :
            LET m == [r EXCEPT !.changed = TRUE, !.nmarked = @ + 1] IN
            IF text = ""
            THEN Commit(l, [m EXCEPT !.todo = Tail(@)], seen \cup {CurKey(r)})
            ELSE IF hasTime
            THEN Commit(l, [m EXCEPT !.pc = "send"], seen \cup {CurKey(r)})
            ELSE Commit(l, StartRequest(m, "disp"), seen \cup {CurKey(r)})
  /\ UNCHANGED <<fn, handles, delivered, proc, sigint, crashes>>

\* One turn of the loop over the subset, up to its first await: the item is
\* skipped (no id, or seen), marked without delivery (no text), or its display
\* time is asked for (hasTime: the item carries isoDate or _ts and no fetch is
\* needed); after the last item the visit ends.
ProcessItem(l) ==
  /\ Running
  /\ loop[l].pc = "items"
  /\ LET r == Cur(l) IN
     IF r.todo = <<>> THEN Commit(l, [r EXCEPT !.pc = "pause"], seen)
     ELSE IF getTweetIdFromLink(Head(r.todo)) = Null \/ CurKey(r) \in seen
     THEN Commit(l, [r EXCEPT !.todo = Tail(@)], seen)
     ELSE \E text \in Texts, hasTime \in BOOLEAN :
            IF text = ""
            THEN Commit(l, [r EXCEPT !.todo = Tail(@), !.changed = TRUE,
                                     !.nmarked = @ + 1],
                        seen \cup {CurKey(r)})
            ELSE IF hasTime THEN Commit(l, [r EXCEPT !.pc = "send"], seen)
            ELSE Commit(l, StartRequest(r, "disp"), seen)
  /\ UNCHANGED <<fn, handles, delivered, proc, sigint, crashes>>

\* getTweetTimeFromStatus returns inside getDisplayTime: sendToWhatsApp is called.
DispBody(l) ==
  /\ Running
  /\ loop[l].pc = "http" /\ loop[l].call = "disp"
  /\ Commit(l, [Cur(l) EXCEPT !.pc = "send", !.call = "none", !.stage = 0], seen)
  /\ UNCHANGED <<fn, handles, delivered, proc, sigint, crashes>>

\* A delivery after which the key is not added to the registry.
DeliverUnmarked(l) ==
  /\ Running
  /\ loop[l].pc = "send"
  /\ LET r == Cur(l) IN
     /\ delivered' = [delivered EXCEPT ![CurKey(r)] = @ + 1]
     /\ Commit(l, [r EXCEPT !.pc = "items", !.todo = Tail(@), !.nsent = @ + 1], seen)
  /\ UNCHANGED <<fn, handles, proc, sigint, crashes>>

\* sendToWhatsApp returns: the key is marked and the loop goes on.
Deliver(l) ==
  /\ Running
  /\ loop[l].pc = "send"
  /\ LET r == Cur(l) IN
     /\ delivered' = [delivered EXCEPT ![CurKey(r)] = @ + 1]
     /\ Commit(l, [r EXCEPT !.pc = "items", !.todo = Tail(@), !.changed = TRUE,
                            !.nsent = @ + 1, !.nmarked = @ + 1],
               seen \cup {CurKey(r)})
  /\ UNCHANGED <<fn, handles, proc, sigint, crashes>>

\* A delivery error caught per post: the loop goes on with the next post.
SendThrowsSkips(l) ==
  /\ Running
  /\ loop[l].pc = "send"
  /\ Commit(l, [Cur(l) EXCEPT !.pc = "items", !.todo = Tail(@), !.logged = @ + 1,
                              !.threw = TRUE], seen)
  /\ UNCHANGED <<fn, handles, delivered, proc, sigint, crashes>>

\* sendToWhatsApp throws: pollOnce's catch ends the visit.
SendThrows(l) ==
  /\ Running
  /\ loop[l].pc = "send"
  /\ Commit(l, Thrown([Cur(l) EXCEPT !.threw = TRUE]), seen)
  /\ UNCHANGED <<fn, handles, delivered, proc, sigint, crashes>>

\* sleep(PER_HANDLE_PAUSE_MS) ends: the next handle, or pollOnce returns and
\* loop arms its timer.
Pause(l) ==
  /\ Running
  /\ loop[l].pc = "pause"
  /\ LET r == Cur(l) IN
     IF r.h < Len(handles) THEN Commit(l, StartHandle(r, r.h + 1), seen)
     ELSE Commit(l, [r EXCEPT !.pc = "sleep"], seen)
  /\ UNCHANGED <<fn, handles, delivered, proc, sigint, crashes>>

\* setTimeout(loop, POLL_MS_BASE + jitter) fires: the next cycle.
Wake(l) ==
  /\ Running
  /\ loop[l].pc = "sleep"
  /\ Commit(l, StartHandle(Cur(l), 1), seen)
  /\ UNCHANGED <<fn, handles, delivered, proc, sigint, crashes>>

\* SIGINT arrives: the handler starts and awaits waClient.destroy().
Sigint ==
  /\ Running
  /\ ~sigint
  /\ sigint' = TRUE
  /\ UNCHANGED <<fn, handles, seen, disk, delivered, proc, crashes, loop>>

\* destroy settles: saveSeen(), then process.exit(0).
SigintExit ==
  /\ Running
  /\ sigint
  /\ disk' = seen
  /\ Exit("sigint")
  /\ UNCHANGED <<fn, handles, seen, delivered, crashes>>

\* The process is ended from outside: by SIGTERM, for which no handler is
\* registered (only SIGINT has one), or by a crash. No code of it runs.
Kill ==
  /\ Running
  /\ crashes < MaxCrashes
  /\ crashes' = crashes + 1
  /\ \E how \in {"sigterm", "crash"} : Exit(how)
  /\ UNCHANGED <<fn, handles, seen, disk, delivered>>

\* A start that does not read seen.json.
RestartEmpty ==
  /\ ~Running
  /\ proc' = "running"
  /\ seen' = {}
  /\ UNCHANGED <<fn, handles, disk, delivered, sigint, crashes, loop>>

\* The process is started again: seen is loaded from seen.json.
Restart ==
  /\ ~Running
  /\ proc' = "running"
  /\ seen' = disk
  /\ UNCHANGED <<fn, handles, disk, delivered, sigint, crashes, loop>>

\* The steps of poll loop l.
Step(l) ==
  \/ ChatFound(l) \/ ChatNotFound(l)
  \/ HttpFail(l) \/ RssBody(l) \/ ParseRss(l) \/ HtmlBody(l) \/ ParseDom(l)
  \/ OgBody(l) \/ TsBody(l) \/ SyndBody(l) \/ SyndTsBody(l) \/ Slice(l)
  \/ ProcessItem(l) \/ DispBody(l) \/ Deliver(l) \/ SendThrows(l) \/ Pause(l)
  \/ Wake(l)

\* One session left to run: the ready event fires once, no signal arrives.
Next == Ready(1) \/ Step(1)

Spec == Init /\ [][Next]_vars

\* The same session under the scheduling the runtime gives: a pending
\* continuation, response or timer of the loop is eventually run.
SpecLive == Init /\ [][Next]_vars /\ WF_vars(Step(1))

\* The process's life: signals, kills and restarts, with one handle configured.
InitLife == Init /\ Len(handles) = 1

NextLife == Next \/ Sigint \/ SigintExit \/ Kill \/ Restart

SpecLife == InitLife /\ [][NextLife]_vars

\* ------------------------------------------------------- a second ready
\* The session emits ready again (after a reconnection): the handler runs
\* again and starts a second poll loop beside the first. Of the interleavings
\* of the two loops, those are followed in which one loop runs while the other
\* is parked: not started, looking the chat up, asleep between two cycles, or
\* waiting for the answer to the first request of a handle's visit.
Parked(l) ==
  \/ loop[l].pc \in {"off", "chat", "sleep"}
  \/ /\ loop[l].pc = "http" /\ loop[l].call = "mirror" /\ loop[l].stage = 1
     /\ Len(loop[l].consulted) = 1

Other(l) == IF l = 1 THEN 2 ELSE 1

Run(l) == Parked(Other(l)) /\ Step(l)

InitTwo == Init /\ Len(handles) = 1

NextTwo == Ready(1) \/ Ready(2) \/ Run(1) \/ Run(2)

SpecTwo == InitTwo /\ [][NextTwo]_vars

\* ------------------------------------------------ helper functions alone
\* The helper functions below are followed on one call each, with the poller
\* at rest.
progVars == <<handles, seen, disk, delivered, proc, sigint, crashes, loop>>

AtRest ==
  /\ handles = PRIORITY_HANDLES
  /\ seen = {} /\ disk = {}
  /\ delivered = [k \in Keys |-> 0]
  /\ proc = "running" /\ sigint = FALSE /\ crashes = 0
  /\ loop = [l \in Loops |-> OffLoop]

\* ---- getDisplayTime
\* item.isoDate: absent, two dates Date accepts, or a string it does not.
IsoDates == {"none", "iso1", "iso2", "isoBad"}
\* item._ts: absent, two strings Date.parse accepts (one also with U+FFFD
\* characters in it), or a string it does not.
RawStamps == {"none", "ts1", "ts1\\uFFFD", "ts2", "tsRaw"}
\* item.link: absent, a permalink with /status/ in it, or another link.
TimeLinks == {"none", "status", "other"}
TimeItems == [isoDate : IsoDates, ts : RawStamps, link : TimeLinks]
\* What getTweetTimeFromStatus resolves to: formatted, raw, or null.
PageTimes == {"page4", "pageRaw", "null"}
NaN == -1
\* new Date(s) / Date.parse(s): the instant, or NaN.
dateParse(s) ==
  CASE s = "iso1" -> 1 [] s = "iso2" -> 2 [] s = "ts1" -> 1 [] s = "ts2" -> 3
    [] OTHER -> NaN
\* _ts.replace(/\uFFFD/g, "")
stripFFFD(s) == IF s = "ts1\\uFFFD" THEN "ts1" ELSE s
\* A display time: a date in the IST format, or a string as it came.
formatIST(d) == [fmt |-> "IST", d |-> d, s |-> ""]
verbatim(s) == [fmt |-> "raw", d |-> 0, s |-> s]
\* getDisplayTime up to its await: the result and the field it is derived
\* from, or "await" when the permalink page is to be fetched.
displayTimeStampFirst(item) ==
  IF item.ts # "none"
  THEN IF dateParse(stripFFFD(item.ts)) # NaN
       THEN [val |-> formatIST(dateParse(stripFFFD(item.ts))), from |-> "_ts"]
       ELSE [val |-> verbatim(item.ts), from |-> "_ts"]
  ELSE IF item.isoDate # "none" /\ dateParse(item.isoDate) # NaN
  THEN [val |-> formatIST(dateParse(item.isoDate)), from |-> "isoDate"]
  ELSE IF item.link = "status" THEN [val |-> verbatim("-"), from |-> "await"]
  ELSE [val |-> verbatim(""), from |-> "nothing"]

displayTimeSync(item) ==
  IF item.isoDate # "none" /\ dateParse(item.isoDate) # NaN
  THEN [val |-> formatIST(dateParse(item.isoDate)), from |-> "isoDate"]
  ELSE IF item.ts # "none"
  THEN IF dateParse(stripFFFD(item.ts)) # NaN
       THEN [val |-> formatIST(dateParse(stripFFFD(item.ts))), from |-> "_ts"]
       ELSE [val |-> verbatim(item.ts), from |-> "_ts"]
  ELSE IF item.link = "status" THEN [val |-> verbatim("-"), from |-> "await"]
  ELSE [val |-> verbatim(""), from |-> "nothing"]

InitTime ==
  /\ AtRest
  /\ \E item \in TimeItems :
       fn = [op |-> "getDisplayTime", pc |-> "call", item |-> item,
             val |-> verbatim("-"), from |-> "-"]

DisplayTimeCall ==
  /\ fn.op = "getDisplayTime" /\ fn.pc = "call"
  /\ LET r == displayTimeSync(fn.item) IN
     fn' = [fn EXCEPT !.pc = IF r.from = "await" THEN "await" ELSE "done",
                      !.val = r.val, !.from = r.from]
  /\ UNCHANGED progVars

\* getTweetTimeFromStatus(item.link) settles: with a time, with null, or
\* with an error, which getDisplayTime lets through.
DisplayTimePage ==
  /\ fn.op = "getDisplayTime" /\ fn.pc = "await"
  /\ \/ \E t \in PageTimes :
          fn' = [fn EXCEPT !.pc = "done",
                           !.val = CASE t = "null" -> verbatim("")
                                     [] t = "page4" -> formatIST(4)
                                     [] OTHER -> verbatim(t),
                           !.from = IF t = "null" THEN "nothing" ELSE "page"]
     \/ fn' = [fn EXCEPT !.pc = "thrown", !.from = "page"]
  /\ UNCHANGED progVars

NextTime == DisplayTimeCall \/ DisplayTimePage

SpecTime == InitTime /\ [][NextTime]_vars

\* ---- image URLs
\* A URL is the sequence of its parts; the empty sequence is a missing or
\* empty attribute (null and "" are both falsy).
NoUrl == <<>>
ProtoRel == <<"//", "host", "/x.jpg">>
ImgSrcs ==
  {NoUrl, ProtoRel, <<"/pic/x.jpg">>, <<"https:", "//", "host", "/x.jpg">>,
   <<"http:", "//", "host", "/x.jpg">>, <<"x.jpg">>}
baseUrl(m) == <<"https:", "//", m>>
\* String.prototype.startsWith on the URLs modelled.
startsWithSlash(u) == u # NoUrl /\ Head(u) \in {"//", "/pic/x.jpg"}
startsWithSlashSlash(u) == u # NoUrl /\ Head(u) = "//"
\* The places an image source comes from.
ImgPlaces ==
  {[tier |-> "rss", at |-> a, base |-> "-"] : a \in {"enclosure", "enclosures", "content"}}
    \cup {[tier |-> "dom", at |-> "img", base |-> NITTER_BASES[m]] :
            m \in 1..Len(NITTER_BASES)}
    \cup {[tier |-> "og", at |-> "og:image", base |-> "-"]}
    \cup {[tier |-> "synd", at |-> a, base |-> "-"] : a \in {"src", "data-src"}}
NoImages == [image |-> NoUrl, enclosure |-> NoUrl, enclosures |-> NoUrl, content |-> NoUrl]
\* parseNitterHTML: src prefixed with the mirror when it starts with "/".
domImage(src, base) == IF startsWithSlash(src) THEN baseUrl(base) \o src ELSE src
\* fetchStatusViaOG and fetchSyndication: "https:" put before a "//..." source.
secureImage(src) == IF startsWithSlashSlash(src) THEN <<"https:">> \o src ELSE src
\* The item the tier builds around the image source.
tierItem(place, src) ==
  CASE place.tier = "dom" -> [NoImages EXCEPT !.image = domImage(src, place.base)]
    [] place.tier \in {"og", "synd"} -> [NoImages EXCEPT !.image = secureImage(src)]
    [] place.at = "enclosure" -> [NoImages EXCEPT !.enclosure = src]
    [] place.at = "enclosures" -> [NoImages EXCEPT !.enclosures = src]
    [] OTHER -> [NoImages EXCEPT !.content = src]
pickImage(item) ==
  IF item.image # NoUrl THEN item.image
  ELSE IF item.enclosure # NoUrl THEN item.enclosure
  ELSE IF item.enclosures # NoUrl THEN item.enclosures
  ELSE item.content

InitImage ==
  /\ AtRest
  /\ \E place \in ImgPlaces, src \in ImgSrcs :
       fn = [op |-> "image", pc |-> "tier", place |-> place, src |-> src,
             item |-> NoImages, url |-> NoUrl]

\* The tier's parser builds the item.
ImageTier ==
  /\ fn.op = "image" /\ fn.pc = "tier"
  /\ fn' = [fn EXCEPT !.pc = "item", !.item = tierItem(fn.place, fn.src)]
  /\ UNCHANGED progVars

\* pollOnce picks the image URL it hands to sendToWhatsApp.
ImagePick ==
  /\ fn.op = "image" /\ fn.pc = "item"
  /\ fn' = [fn EXCEPT !.pc = "picked", !.url = pickImage(fn.item)]
  /\ UNCHANGED progVars

NextImage == ImageTier \/ ImagePick

SpecImage == InitImage /\ [][NextImage]_vars

\* ---- htmlToText
\* A string is the sequence of its pieces: letters, white space, tags and
\* character references, and the characters a decoded reference leaves.
MaxTextLen == 3
TextPieces == {"x", "b", "lt;", " ", "\n", "<br>", "</p>", "<b>", "&lt;", "&gt;", "&amp;"}
TextInputs == SeqsUpTo(TextPieces, MaxTextLen)
\* Reading character references in a string: "&" "lt;" is the reference &lt;.
RECURSIVE lexRefs(_)
lexRefs(s) ==
  IF s = <<>> THEN <<>>
  ELSE IF Len(s) >= 2 /\ s[1] = "&" /\ s[2] = "lt;"
  THEN <<"&lt;">> \o lexRefs(Tail(Tail(s)))
  ELSE <<Head(s)>> \o lexRefs(Tail(s))
\* Reading tags in a string: "<" "b" ">" is the tag <b>.
RECURSIVE lexTags(_)
lexTags(s) ==
  IF s = <<>> THEN <<>>
  ELSE IF Len(s) >= 3 /\ s[1] = "<" /\ s[2] = "b" /\ s[3] = ">"
  THEN <<"<b>">> \o lexTags(SubSeq(s, 4, Len(s)))
  ELSE <<Head(s)>> \o lexTags(Tail(s))
\* The HTML reading of a string.
lex(s) == lexTags(lexRefs(s))
\* The four replace() calls: <br> to a newline, </p> to two.
RECURSIVE breaks(_)
breaks(s) ==
  IF s = <<>> THEN <<>>
  ELSE (CASE Head(s) = "<br>" -> <<"\n">>
          [] Head(s) = "</p>" -> <<"\n", "\n">>
          [] OTHER -> <<Head(s)>>) \o breaks(Tail(s))
\* htmlParse(...).innerText / .text before decoding: the tags are gone.
rawText(s) == SelectSeq(s, LAMBDA t : t # "<b>")
\* he.decode
RECURSIVE decode(_)
decode(s) ==
  IF s = <<>> THEN <<>>
  ELSE (CASE Head(s) = "&lt;" -> <<"<">>
          [] Head(s) = "&gt;" -> <<">">>
          [] Head(s) = "&amp;" -> <<"&">>
          [] OTHER -> <<Head(s)>>) \o decode(Tail(s))
RECURSIVE dropTrailing(_, _)
dropTrailing(s, drop) ==
  IF s # <<>> /\ s[Len(s)] \in drop THEN dropTrailing(SubSeq(s, 1, Len(s) - 1), drop)
  ELSE s
RECURSIVE dropLeading(_, _)
dropLeading(s, drop) ==
  IF s # <<>> /\ Head(s) \in drop THEN dropLeading(Tail(s), drop) ELSE s
\* split("\n").map(s => s.replace(/\s+$/g, "")).join("\n")
RECURSIVE trimLineEnds(_, _)
trimLineEnds(s, line) ==
  IF s = <<>> THEN dropTrailing(line, {" "})
  ELSE IF Head(s) = "\n"
  THEN dropTrailing(line, {" "}) \o <<"\n">> \o trimLineEnds(Tail(s), <<>>)
  ELSE trimLineEnds(Tail(s), Append(line, Head(s)))
\* replace(/\n{3,}/g, "\n\n")
RECURSIVE squeeze(_, _)
squeeze(s, run) ==
  IF s = <<>> THEN <<>>
  ELSE IF Head(s) = "\n"
  THEN (IF run >= 2 THEN <<>> ELSE <<"\n">>) \o squeeze(Tail(s), run + 1)
  ELSE <<Head(s)>> \o squeeze(Tail(s), 0)
trimText(s) == dropLeading(dropTrailing(s, {" ", "\n"}), {" ", "\n"})
\* The text of the parsed root, decoded: root.innerText is the raw text where
\* the parser has that property, else root.text, which the parser has already
\* decoded once, is decoded again.
decodedText(s, hasInnerText) ==
  IF hasInnerText THEN decode(rawText(s)) ELSE decode(lexRefs(decode(rawText(s))))
htmlToText(html, hasInnerText) ==
  IF html = <<>> THEN <<>>
  ELSE trimText(squeeze(trimLineEnds(decodedText(breaks(lex(html)), hasInnerText),
                                     <<>>), 0))

InitText ==
  /\ AtRest
  /\ \E x \in TextInputs, hasInnerText \in BOOLEAN :
       fn = [op |-> "htmlToText", pc |-> "in", x |-> x, hasInnerText |-> hasInnerText,
             once |-> <<>>, twice |-> <<>>]

\* The tier's parser normalizes the content of a node.
TextOnce ==
  /\ fn.op = "htmlToText" /\ fn.pc = "in"
  /\ fn' = [fn EXCEPT !.pc = "once", !.once = htmlToText(fn.x, fn.hasInnerText)]
  /\ UNCHANGED progVars

\* extractText normalizes item.content, that is the parser's output, again.
TextTwice ==
  /\ fn.op = "htmlToText" /\ fn.pc = "once"
  /\ fn' = [fn EXCEPT !.pc = "twice", !.twice = htmlToText(fn.once, fn.hasInnerText)]
  /\ UNCHANGED progVars

NextText == TextOnce \/ TextTwice

SpecText == InitText /\ [][NextText]_vars

\* ---- fetchTextSmart
\* A target URL: its scheme and what follows "://".
SmartUrls == [scheme : {"http", "https"}, rest : {"u1", "u2"}]
Referers == {"none", "m1"}
SmartBodies == {"body1", "body2"}
ErrorKinds == {"timeout", "status", "network"}
\* The URL fetchRaw is given: the target, or the proxy under r.jina.ai with
\* the target rewritten under the plain or the secure scheme.
directUrl(url) == [via |-> "direct", scheme |-> url.scheme, rest |-> url.rest]
viaHttp(url) == [via |-> "r.jina.ai", scheme |-> "http", rest |-> url.rest]
viaHttps(url) == [via |-> "r.jina.ai", scheme |-> "https", rest |-> url.rest]
\* The n-th request of a fetchTextSmart call.
smartRequest(url, n) ==
  CASE n = 1 -> directUrl(url) [] n = 2 -> viaHttp(url) [] OTHER -> viaHttps(url)
\* The error fetchRaw throws for a request.
rawError(kind, req) == [kind |-> kind, at |-> req]
\* The innermost catch rethrowing the error caught last.
smartThrowsLast(errs) == errs[Len(errs)]
\* The error fetchTextSmart throws once its three requests have failed.
smartThrows(errs) == errs[1]

InitSmart ==
  /\ AtRest
  /\ \E url \in SmartUrls, referer \in Referers :
       fn = [op |-> "fetchTextSmart", pc |-> "call", url |-> url, referer |-> referer,
             reqs |-> <<>>, errs |-> <<>>, body |-> "-",
             err |-> rawError("-", directUrl(url))]

\* fetchTextSmart is called: the direct request goes out.
SmartCall ==
  /\ fn.op = "fetchTextSmart" /\ fn.pc = "call"
  /\ fn' = [fn EXCEPT !.pc = "request", !.reqs = <<smartRequest(fn.url, 1)>>]
  /\ UNCHANGED progVars

\* The request in flight resolves with a body: fetchTextSmart returns it.
SmartBody ==
  /\ fn.op = "fetchTextSmart" /\ fn.pc = "request"
  /\ \E b \in SmartBodies : fn' = [fn EXCEPT !.pc = "returned", !.body = b]
  /\ UNCHANGED progVars

\* The request in flight fails: the next request goes out, or after the
\* third the call throws.
SmartFail ==
  /\ fn.op = "fetchTextSmart" /\ fn.pc = "request"
  /\ \E kind \in ErrorKinds :
       LET errs == Append(fn.errs, rawError(kind, fn.reqs[Len(fn.reqs)])) IN
       IF Len(fn.reqs) < SmartRequests
       THEN fn' = [fn EXCEPT !.errs = errs,
                            !.reqs = Append(@, smartRequest(fn.url, Len(@) + 1))]
       ELSE fn' = [fn EXCEPT !.errs = errs, !.pc = "thrown", !.err = smartThrows(errs)]
  /\ UNCHANGED progVars

NextSmart == SmartCall \/ SmartBody \/ SmartFail

SpecSmart == InitSmart /\ [][NextSmart]_vars

\* ---------------------------------------------------------------- claims
Range(s) == {s[i] : i \in 1..Len(s)}
IsPrefix(s, t) == Len(s) <= Len(t) /\ \A i \in 1..Len(s) : s[i] = t[i]
NoDuplicates(s) == \A i, j \in 1..Len(s) : s[i] = s[j] => i = j
Last(s) == s[Len(s)]
\* A feed whose items all carry a status link and come newest first.
NewestFirst(s) ==
  /\ \A i \in 1..Len(s) : s[i] # NoLink
  /\ \A i, j \in 1..Len(s) : i < j => s[i] > s[j]
OldestFirst(s) == \A i, j \in 1..Len(s) : i < j => s[i] < s[j]
\* Loop l is inside fetchFeed.
InFetch(l) ==
  \/ loop[l].pc = "http" /\ loop[l].call # "disp"
  \/ loop[l].pc = "parse"

\* C1: without a crash, over any number of cycles and any source contents,
\* sendToWhatsApp returns at most once for every key "handle:id".
C1_AtMostOnce == \A k \in Keys : delivered[k] <= 1

\* A later cycle meets, in the subset of a handle, a post delivered and saved
\* in an earlier cycle.
C1_Witness ==
  /\ loop[1].pc = "items" /\ loop[1].todo # <<>>
  /\ getTweetIdFromLink(Head(loop[1].todo)) # Null
  /\ CurKey(loop[1]) \in disk
  /\ delivered[CurKey(loop[1])] = 1

\* C2 (as claimed): of a newest-first feed longer than MAX_ITEMS_PER_HANDLE,
\* the posts pollOnce considers are the MAX_ITEMS_PER_HANDLE most recent ones.
C2_NewestConsidered ==
  [][\A l \in Loops :
       (/\ loop[l].pc = "fetched" /\ loop'[l].pc = "items"
        /\ NewestFirst(loop[l].feed)
        /\ Len(loop[l].feed) > MAX_ITEMS_PER_HANDLE)
       => Range(loop'[l].todo)
            = Range(sliceFirst(loop[l].feed, MAX_ITEMS_PER_HANDLE))]_vars

\* C3: the configured list is the priority prefix followed by the other
\* handles, none twice; a cycle visits it from the first handle to the last,
\* one handle after the other, and so does every cycle; a delivery is for the
\* handle being visited; a newest-first feed of at most MAX_ITEMS_PER_HANDLE
\* items is processed from its oldest post to its newest, and a delivery is of
\* the first post left to process.
C3_DeliveryOrder ==
  [][\A l \in Loops :
       /\ IsPrefix(PRIORITY_HANDLES, handles) /\ NoDuplicates(handles)
       /\ loop'[l].h # loop[l].h =>
            \/ loop'[l].h = loop[l].h + 1 /\ loop'[l].h <= Len(handles)
            \/ loop'[l].h = 1 /\ loop[l].h = Len(handles) /\ loop[l].pc = "sleep"
            \/ loop'[l].h = 0 /\ ~Running'
       /\ (loop[l].pc = "pause" /\ loop'[l].pc = "sleep") => loop[l].h = Len(handles)
       /\ (/\ loop[l].pc = "fetched" /\ loop'[l].pc = "items"
           /\ NewestFirst(loop[l].feed)
           /\ Len(loop[l].feed) <= MAX_ITEMS_PER_HANDLE)
          => /\ OldestFirst(loop'[l].todo)
             /\ Range(loop'[l].todo) = Range(loop[l].feed)
       /\ (loop[l].pc = "send" /\ loop'[l].pc = "items") =>
            /\ delivered' = [delivered EXCEPT
                               ![Key(handles[loop[l].h], Head(loop[l].todo))] = @ + 1]
            /\ loop'[l].todo = Tail(loop[l].todo)
       /\ (loop[l].pc \in {"items", "send", "http"} /\ loop[l].call \in {"none", "disp"})
          => \/ loop'[l].todo \in {loop[l].todo, <<>>}
             \/ loop[l].todo # <<>> /\ loop'[l].todo = Tail(loop[l].todo)]_vars

\* The second handle's newer post is being delivered after its older one, in a
\* cycle that delivered for the first handle.
C3_Witness ==
  /\ loop[1].pc = "send" /\ loop[1].h = 2 /\ loop[1].todo = <<2>>
  /\ loop[1].nsent = 1 /\ delivered[Key(handles[2], 1)] = 1
  /\ Key(handles[2], 1) \notin disk
  /\ \E p \in PostIds : delivered[Key(handles[1], p)] = 1

\* The order in which one fetchFeed call consults (tier, attempt, mirror).
MirrorRun(tier, att) == [m \in 1..Len(NITTER_BASES) |-> <<tier, att, m>>]
ConsultOrder ==
  MirrorRun("rss", 0) \o MirrorRun("rss", 1) \o MirrorRun("html", 0)
    \o MirrorRun("html", 1) \o << <<"synd", 0, 0>>, <<"synd", 1, 0>> >>

\* C4: the consultations of a fetchFeed call follow the fixed order RSS, HTML,
\* widget JSON, every attempt from the first mirror on; the body accepted is
\* that of the last consultation made, so every earlier one failed; and once
\* fetchFeed has returned no mirror or tier is asked again in that visit.
C4_FirstAcceptedWins ==
  [][\A l \in Loops :
       /\ IsPrefix(loop'[l].consulted, ConsultOrder)
       /\ InFetch(l) =>
            /\ loop[l].consulted # <<>>
            /\ Last(loop[l].consulted) = <<loop[l].tier, loop[l].att, loop[l].mir>>
       /\ loop'[l].consulted \in
            {loop[l].consulted, <<>>, <<ConsultOrder[1]>>,
             IF Len(loop[l].consulted) < Len(ConsultOrder)
             THEN Append(loop[l].consulted, ConsultOrder[Len(loop[l].consulted) + 1])
             ELSE <<>>}
       /\ (loop[l].pc \in {"fetched", "items", "send"} \/ loop[l].call = "disp")
          => /\ loop'[l].consulted = <<>>
             /\ loop'[l].pc = "http" => loop'[l].call = "disp"]_vars

\* The second mirror's body is accepted by the HTML tier in its second attempt.
C4_Witness ==
  /\ loop[1].pc = "parse" /\ loop[1].tier = "html"
  /\ loop[1].att = 1 /\ loop[1].mir = 2
  /\ Len(loop[1].consulted) = 8

\* C5: while fetchFeed runs, and when it fails, nothing is delivered and the
\* registry is left as it was, in memory and on disk; the failure is logged
\* once; the visit ends like any other, so the next handle (or the next cycle)
\* follows; and every visit starts at the RSS tier's first attempt and mirror.
C5_ExhaustionSkipsHandle ==
  [][\A l \in Loops :
       /\ InFetch(l) =>
            /\ seen' = seen /\ disk' = disk /\ delivered' = delivered
            /\ loop[l].logged = 0 /\ loop[l].nsent = 0 /\ loop[l].nmarked = 0
            /\ ~loop[l].changed /\ ~loop[l].saved
       /\ loop'[l].failed =>
            /\ loop'[l].pc \in {"pause", "sleep"} /\ loop'[l].logged = 1
            /\ loop'[l].nsent = 0 /\ loop'[l].nmarked = 0
            /\ ~loop'[l].changed /\ ~loop'[l].saved
       /\ (loop[l].failed /\ loop[l].pc = "pause" /\ loop'[l] # loop[l]) =>
            IF loop[l].h < Len(handles)
            THEN loop'[l].h = loop[l].h + 1 /\ loop'[l].pc = "http"
            ELSE loop'[l].pc = "sleep"
       /\ (loop'[l].h # loop[l].h /\ loop'[l].h > 0) =>
            /\ loop'[l].pc = "http" /\ loop'[l].call = "mirror"
            /\ loop'[l].tier = "rss" /\ loop'[l].att = 0 /\ loop'[l].mir = 1
            /\ loop'[l].stage = 1 /\ ~loop'[l].failed]_vars

\* Every tier has failed for the first of two handles, in a cycle that finds
\* the registry filled by earlier ones.
C5_Witness ==
  /\ loop[1].failed /\ loop[1].h = 1 /\ Len(handles) = 2
  /\ \E p \in PostIds : Key(handles[1], p) \in seen

C7_OneDuplicatePerCrash == \A k \in Keys : delivered[k] <= 1 + crashes

\* A post has been delivered twice, once before the kill and once after.
C7_Witness == \E k \in Keys : delivered[k] = 2 /\ crashes = 1

\* C8 (as claimed): however the process shuts down, by exit or by a signal,
\* seen.json holds every key of the in-memory registry when it ends.
C8_FlushedOnShutdown ==
  proc \in {"sigint", "sigterm", "exit1"} => seen \subseteq disk

\* C9: in the HTML tier a body with the access-restriction signature is not
\* handed to the parser, whatever else it holds; the next mirror of the same
\* attempt follows, and only after the last mirror does the attempt end.
C9_BlockedHtmlSkipsMirror ==
  \A l \in Loops :
    (loop[l].got # NoBody /\ loop[l].got.sig = "blocked" /\ loop[l].gotAt[1] = "html")
    => /\ loop[l].pc = "http"
       /\ loop[l].stage = 1
       /\ IF loop[l].gotAt[3] < Len(NITTER_BASES)
          THEN /\ loop[l].call = "mirror"
               /\ <<loop[l].tier, loop[l].att, loop[l].mir>>
                    = <<"html", loop[l].gotAt[2], loop[l].gotAt[3] + 1>>
          ELSE <<loop[l].tier, loop[l].att, loop[l].mir>>
                 \in {<<"html", loop[l].gotAt[2] + 1, 1>>, <<"synd", 0, 0>>}

\* The first mirror's page is a timeline page carrying the access-restriction
\* phrase: the second mirror is asked in the same attempt.
C9_Witness ==
  /\ loop[1].got = [sig |-> "blocked", form |-> "html"]
  /\ loop[1].gotAt = <<"html", 0, 1>>
  /\ loop[1].pc = "http" /\ loop[1].mir = 2 /\ loop[1].att = 0

\* The attempts of a tier made so far by the fetchFeed call of loop l.
AttemptsOf(l, tier) ==
  {loop[l].consulted[i][2] : i \in {j \in 1..Len(loop[l].consulted) :
                                     loop[l].consulted[j][1] = tier}}
Polling(l) == loop[l].pc \in {"http", "parse", "fetched", "items", "send", "pause"}

\* C10: a fetchFeed call makes at most 2 attempts per tier and 6 in all,
\* consults no mirror twice in an attempt, and a transport fetch issues at
\* most 3 requests; and when every request and every delivery settles, a
\* cycle under way completes, which it does only from the last handle's visit,
\* having gone through the handles one by one.
C10_BoundedAndCompletes ==
  /\ [](\A l \in Loops :
          /\ \A tier \in {"rss", "html", "synd"} : Cardinality(AttemptsOf(l, tier)) <= 2
          /\ NoDuplicates(loop[l].consulted)
          /\ Len(loop[l].consulted) <= 4 * Len(NITTER_BASES) + 2
          /\ loop[l].stage <= 3
          /\ loop[l].call = "synd" => loop[l].stage <= 1)
  /\ [][\A l \in Loops :
          /\ (loop'[l].pc = "sleep" /\ loop[l].pc # "sleep") => loop[l].h = Len(handles)
          /\ (loop'[l].h # loop[l].h /\ loop'[l].h > 1) =>
               loop'[l].h = loop[l].h + 1 /\ loop[l].pc = "pause"]_vars
  /\ (Polling(1) ~> loop[1].pc = "sleep")

\* The sixth tier attempt of a fetchFeed call is under way.
C10_Witness ==
  /\ loop[1].pc = "http" /\ loop[1].tier = "synd" /\ loop[1].att = 1
  /\ Len(loop[1].consulted) = 10

\* C11 (as claimed): an item with an isoDate, whatever its value, and a _ts
\* gets a display time derived from the isoDate, never from the _ts.
C11_IsoDateAlwaysWins ==
  (fn.op = "getDisplayTime" /\ fn.pc = "done"
     /\ fn.item.isoDate # "none" /\ fn.item.ts # "none")
  => fn.from = "isoDate"

\* C11 (amended): an isoDate that Date accepts decides the display time, which
\* is that date formatted, whatever the _ts; with an isoDate that Date does
\* not accept, the display time of an item with a _ts is derived from the _ts.
C11_ValidIsoDateWins ==
  (fn.op = "getDisplayTime" /\ fn.pc \in {"done", "await", "thrown"}) =>
    /\ dateParse(fn.item.isoDate) # NaN =>
         /\ fn.pc = "done" /\ fn.from = "isoDate"
         /\ fn.val = formatIST(dateParse(fn.item.isoDate))
    /\ (dateParse(fn.item.isoDate) = NaN /\ fn.item.ts # "none") =>
         /\ fn.pc = "done" /\ fn.from = "_ts"
         /\ fn.val \in {verbatim(fn.item.ts), formatIST(dateParse(stripFFFD(fn.item.ts)))}

\* An item with a valid isoDate and a _ts of another instant got the isoDate's.
C11_Witness ==
  /\ fn.op = "getDisplayTime" /\ fn.pc = "done"
  /\ fn.item.isoDate = "iso1" /\ fn.item.ts = "ts2"
  /\ fn.val = formatIST(1)

\* C12 (as claimed): whatever tier produced it, an image source "//host/path"
\* is delivered as "https://host/path".
C12_ProtocolRelativeRewritten ==
  (fn.op = "image" /\ fn.pc = "picked" /\ fn.src = ProtoRel)
  => fn.url = <<"https:">> \o ProtoRel

\* C13 (as claimed): htmlToText applied to its own output gives that output.
C13_NormalizerIdempotent ==
  (fn.op = "htmlToText" /\ fn.pc = "twice") => fn.twice = fn.once

\* A poll cycle of loop l is in progress.
InCycle(l) == loop[l].pc \notin {"off", "chat", "sleep"}

\* C14 (as claimed): whatever the session's events, a ready event fired twice
\* included, at most one poll cycle is in progress, so at most one handle's
\* visit and at most one request.
C14_OneCycleAtATime == Cardinality({l \in Loops : InCycle(l)}) <= 1

\* C15: when sendToWhatsApp throws, the visit of the handle ends there: the
\* failing post is not marked, the posts left are not processed, one error is
\* logged, what the visit had marked stays marked and is in seen.json when the
\* pause begins; then the next handle's visit starts, or the cycle ends.
C15_DeliveryErrorEndsVisit ==
  [][\A l \in Loops :
       /\ (loop[l].pc = "send" /\ loop'[l].pc # "send" /\ delivered' = delivered) =>
            /\ loop'[l].pc = "pause" /\ loop'[l].threw
            /\ seen' = seen /\ CurKey(loop[l]) \notin seen'
            /\ loop'[l].todo = <<>> /\ loop'[l].logged = 1
            /\ loop'[l].nsent = loop[l].nsent /\ loop'[l].nmarked = loop[l].nmarked
            /\ disk' = seen'
            /\ loop'[l].saved <=> loop[l].nmarked > 0
       /\ loop'[l].threw => loop'[l].pc \in {"pause", "sleep"}
       /\ (loop[l].threw /\ loop[l].pc = "pause" /\ loop'[l] # loop[l]) =>
            /\ seen' = seen /\ disk' = disk /\ delivered' = delivered /\ Running'
            /\ IF loop[l].h < Len(handles)
               THEN /\ loop'[l].h = loop[l].h + 1 /\ loop'[l].pc = "http"
                    /\ loop'[l].tier = "rss" /\ ~loop'[l].threw
               ELSE loop'[l].pc = "sleep"]_vars

\* The delivery of the first handle's second post has thrown: the first post
\* is marked and saved, the second is not marked, a second handle is to come.
C15_Witness ==
  /\ loop[1].pc = "pause" /\ loop[1].threw /\ loop[1].h = 1 /\ Len(handles) = 2
  /\ loop[1].nsent = 1 /\ loop[1].saved
  /\ delivered[Key(handles[1], 1)] = 1 /\ Key(handles[1], 1) \in disk
  /\ Key(handles[1], 2) \notin seen

\* C16: fetchTextSmart asks the target first, the proxy with the plain-scheme
\* rewrite only after the direct request failed, the proxy with the
\* secure-scheme rewrite only after that failed too, and nothing after; it
\* returns the body of the first request that succeeds; when all three fail
\* it throws the error of the direct request.
C16_DirectThenProxy ==
  fn.op = "fetchTextSmart" =>
    /\ Len(fn.reqs) <= 3
    /\ IsPrefix(fn.reqs, <<directUrl(fn.url), viaHttp(fn.url), viaHttps(fn.url)>>)
    /\ \A i \in 1..Len(fn.errs) : fn.errs[i].at = fn.reqs[i]
    /\ fn.pc = "request" => Len(fn.errs) = Len(fn.reqs) - 1
    /\ fn.pc = "returned" => Len(fn.errs) = Len(fn.reqs) - 1 /\ fn.body \in SmartBodies
    /\ fn.pc = "thrown" =>
         /\ Len(fn.reqs) = 3 /\ Len(fn.errs) = 3
         /\ fn.err = fn.errs[1] /\ fn.err.at = directUrl(fn.url)

\* All three requests have failed, each in its own way: the error thrown is
\* the first one.
C16_Witness ==
  /\ fn.op = "fetchTextSmart" /\ fn.pc = "thrown"
  /\ fn.errs[1].kind = "timeout" /\ fn.errs[2].kind = "status"
  /\ fn.errs[3].kind = "network"
  /\ fn.err.kind = "timeout"

\* The fetchFeed call of loop l has turned away from the consultation that
\* received the body held in got.
Rejected(l) == <<loop[l].tier, loop[l].att, loop[l].mir>> # loop[l].gotAt

\* C17 (as claimed): in the feed tier and in the HTML tier alike, a body with
\* the Blocked, the RateLimited or the EmptyTimeline signature is rejected for
\* that mirror and never handed to the tier's parser.
C17_SignaturesRejectedInBothTiers ==
  \A l \in Loops :
    (/\ loop[l].got # NoBody
     /\ loop[l].got.sig \in {"blocked", "ratelimit", "empty"}
     /\ loop[l].gotAt[1] \in {"rss", "html"})
    => Rejected(l) /\ loop[l].pc # "parse"

\* C18 (as claimed): at each of the three endpoints, a request whose failure
\* reaches the tier resolver has been tried again through the proxy.
C18_ProxyTriedAtEveryEndpoint ==
  [][\A l \in Loops :
       (/\ loop[l].pc = "http" /\ loop[l].call \in {"mirror", "synd"}
        /\ loop'[l].got = NoBody
        /\ loop'[l].consulted # loop[l].consulted)
       => loop[l].stage = SmartRequests]_vars

\* C19 (as claimed): every key in the registry is the key of a post whose
\* delivery returned.
C19_MarkedMeansDelivered == \A k \in seen : delivered[k] >= 1

\* C19 (amended): every delivery that returns marks its key, and a key enters
\* the registry in one of two ways only: with the return of its own delivery,
\* or, without any delivery, when pollOnce finds the post's text empty; so at
\* the end of a visit the keys added are the posts delivered and the posts
\* skipped for an empty text.
C19_MarkedMeansDeliveredOrEmpty ==
  [][\A l \in {1} :
       /\ seen \subseteq seen'
       /\ \A k \in Keys : delivered'[k] > delivered[k] => k \in seen' \ seen
       /\ seen' # seen =>
            /\ loop[l].pc \in {"items", "send"} /\ loop[l].todo # <<>>
            /\ seen' = seen \cup {CurKey(loop[l])}
            /\ loop'[l].nmarked = loop[l].nmarked + 1
            /\ IF loop[l].pc = "send"
               THEN /\ delivered' = [delivered EXCEPT ![CurKey(loop[l])] = @ + 1]
                    /\ loop'[l].nsent = loop[l].nsent + 1
               ELSE delivered' = delivered /\ loop'[l].nsent = loop[l].nsent
       /\ loop'[l].nsent <= loop'[l].nmarked
       /\ Cardinality({k \in seen' : delivered'[k] = 0}) + loop'[l].nsent
            >= loop'[l].nmarked]_vars

\* A visit has ended that marked two posts and delivered one of them: the
\* other one, whose text was empty, is in the registry undelivered.
C19_Witness ==
  /\ loop[1].pc = "pause" /\ loop[1].nmarked = 2 /\ loop[1].nsent = 1 /\ loop[1].saved
  /\ \E k \in disk : delivered[k] = 0
  /\ \E k \in disk : delivered[k] = 1

\* C20 (as claimed): whenever fetchFeed returns, its result holds at least
\* one item.
C20_ResultNeverEmpty ==
  \A l \in Loops : loop[l].pc = "fetched" => loop[l].feed # <<>>

====
